---- MODULE Spec2Model ----
(***************************************************************************)
(* Model of the minimal IR engine (src/search_frontend.py) and of its      *)
(* ranking-quality metrics (src/eval_queries.py,                           *)
(* src/scripts/ap10_selfcheck.py).                                         *)
(*                                                                         *)
(* Six specifications share the variables:                                 *)
(*   SpecMetrics  ap_at_k / precision_at_k / recall_at_k on bounded inputs *)
(*   SpecCand     build_candidates on bounded body indices and caps        *)
(*   SpecCount    binary_match_count on bounded field indices              *)
(*   Spec         the four query endpoints over a bounded corpus           *)
(*   SpecUnfiltered  the same over indices that hold stopwords             *)
(*   SpecStartup  startup() and the request threads of the server          *)
(*                                                                         *)
(* Python floats are modelled exactly: the metrics as normalised rationals *)
(* <<num, den>>, the TF-IDF weights as fixed-point integers.  A Python     *)
(* exception is the result record with exc = TRUE.                         *)
(***************************************************************************)
EXTENDS Integers, Sequences, FiniteSets

VARIABLES body_index, title_index, anchor_index, app, op, args, ret

vars == <<body_index, title_index, anchor_index, app, op, args, ret>>

(***************************************************************************)
(* Bounds of the model.                                                    *)
(***************************************************************************)
\* document ids of the function-level specifications are 1..MaxDoc
MaxDoc == 3
\* document ids of the endpoint specification are 1..MaxDocE
MaxDocE == 2
\* largest term frequency of a posting
MaxTf == 2
\* longest token list handed to build_candidates / binary_match_count
MaxTokens == 2
\* longest query text (in words) sent to an endpoint
MaxQueryLen == 2
\* longest ranked list and largest k of the bounded metric inputs
MaxRanked == 3
MaxK == 4

MaxThreads == 2

MaxShards == 2

(***************************************************************************)
(* Generic helpers (Python built-ins).                                     *)
(***************************************************************************)
Min(a, b) == IF a <= b THEN a ELSE b

Range(s) == {s[i] : i \in 1..Len(s)}

\* s[:n] for n >= 0
Take(s, n) == SubSeq(s, 1, Min(n, Len(s)))

SeqsUpTo(S, n) == UNION {[1..m -> S] : m \in 0..n}

RECURSIVE Gcd(_, _)
Gcd(a, b) == IF b = 0 THEN a ELSE Gcd(b, a % b)

\* a float, kept exact: <<numerator, denominator>> in lowest terms
Rat(n, d) == LET g == Gcd(n, d) IN IF g = 0 THEN <<0, 1>> ELSE <<n \div g, d \div g>>

RatAdd(x, y) == Rat(x[1] * y[2] + y[1] * x[2], x[2] * y[2])

RatLeq(x, y) == x[1] * y[2] <= y[1] * x[2]

Zero == Rat(0, 1)

One == Rat(1, 1)

\* the outcome of a call: a returned value or a raised exception
Return(v) == [exc |-> FALSE, val |-> v]

Raise == [exc |-> TRUE, val |-> Zero]

\* Python's  x / n  on floats: ZeroDivisionError when n = 0
Divide(x, n) == IF n = 0 THEN Raise ELSE Return(Rat(x[1], x[2] * n))

(***************************************************************************)
(* Evaluation metrics.                                                     *)
(***************************************************************************)
\* the loop of ap_at_k over the already sliced list:  st = <<hits, sum_prec>>
RECURSIVE ApLoop(_, _, _, _)
ApLoop(rels, topk, i, st) ==
    IF i > Len(topk) THEN st
    ELSE IF topk[i] \in rels
         THEN ApLoop(rels, topk, i + 1, <<st[1] + 1, RatAdd(st[2], Rat(st[1] + 1, i))>>)
         ELSE ApLoop(rels, topk, i + 1, st)

\* the mutant normalises by len(rels) alone
ap_at_k_by_rels(rels, ranked_doc_ids, k) ==
    IF rels = {} THEN Return(Zero)
    ELSE Divide(ApLoop(rels, Take(ranked_doc_ids, k), 1, <<0, Zero>>)[2], Cardinality(rels))

\* eval_queries.ap_at_k
ap_at_k(rels, ranked_doc_ids, k) ==
    IF rels = {} THEN Return(Zero)
    ELSE Divide(ApLoop(rels, Take(ranked_doc_ids, k), 1, <<0, Zero>>)[2],
                Min(Cardinality(rels), k))

\* ap10_selfcheck.ap_at_k (ranked first, the list re-bound to its slice)
selfcheck_ap_at_k(ranked, relevant, k) ==
    IF relevant = {} THEN Return(Zero)
    ELSE LET sliced == Take(ranked, k)
         IN  Divide(ApLoop(relevant, sliced, 1, <<0, Zero>>)[2],
                    Min(Cardinality(relevant), k))

\* sum(1 for d in topk if d in rels)
CountIn(topk, rels) == Cardinality({i \in 1..Len(topk) : topk[i] \in rels})

\* the mutant counts the whole ranked list instead of its first k entries
precision_at_k_noslice(rels, ranked_doc_ids, k) ==
    IF k <= 0 THEN Return(Zero)
    ELSE Divide(Rat(CountIn(ranked_doc_ids, rels), 1), k)

precision_at_k(rels, ranked_doc_ids, k) ==
    IF k <= 0 THEN Return(Zero)
    ELSE Divide(Rat(CountIn(Take(ranked_doc_ids, k), rels), 1), k)

recall_at_k(rels, ranked_doc_ids, k) ==
    IF rels = {} THEN Return(Zero)
    ELSE Divide(Rat(CountIn(Take(ranked_doc_ids, k), rels), 1), Cardinality(rels))

(***************************************************************************)
(* SpecMetrics: the metric functions applied to bounded inputs.            *)
(***************************************************************************)
MetricIds == {"a", "b", "x"}

\* the AP@10 scenario: relevant = {a,b,c}, ranked = [x,a,y,b,c], k = 10
ScenarioInput == [rels |-> {"a", "b", "c"}, ranked |-> <<"x", "a", "y", "b", "c">>, k |-> 10]

MetricInputs ==
    {[rels |-> r, ranked |-> s, k |-> k] :
        r \in SUBSET MetricIds, s \in SeqsUpTo(MetricIds, MaxRanked), k \in 0..MaxK}
    \cup {ScenarioInput}

NoIndex == [t \in {} |-> <<>>]

\* the request threads of the server
Threads == 1..MaxThreads

\* the application after startup() has run: the first request was dispatched,
\* no thread holds the lock of the before-first-request functions
Started ==
    [got_first_request |-> TRUE, lock |-> 0, line |-> 0,
     pc |-> [t \in Threads |-> "idle"]]

InitMetrics ==
    /\ body_index = NoIndex
    /\ title_index = NoIndex
    /\ anchor_index = NoIndex
    /\ app = Started
    /\ op = "init"
    /\ args \in MetricInputs
    /\ ret = Return(Zero)

Call(name, result) ==
    /\ op' = name
    /\ ret' = result
    /\ UNCHANGED <<body_index, title_index, anchor_index, app, args>>

CallApAtK == Call("ap_at_k", ap_at_k(args.rels, args.ranked, args.k))

CallSelfcheckApAtK == Call("selfcheck_ap_at_k", selfcheck_ap_at_k(args.ranked, args.rels, args.k))

CallPrecisionAtK == Call("precision_at_k", precision_at_k(args.rels, args.ranked, args.k))

CallRecallAtK == Call("recall_at_k", recall_at_k(args.rels, args.ranked, args.k))

NextMetrics == CallApAtK \/ CallSelfcheckApAtK \/ CallPrecisionAtK \/ CallRecallAtK

SpecMetrics == InitMetrics /\ [][NextMetrics]_vars

MetricOps == {"ap_at_k", "selfcheck_ap_at_k", "precision_at_k", "recall_at_k"}

\* C7: for every relevant set, ranked list and k >= 0 (k = 0 included) each
\* metric returns a number without raising, and returns 0.0 when the relevant
\* set is empty or k is 0.
C7_MetricsNeverRaise ==
    op \in MetricOps =>
        /\ ~ret.exc
        /\ (args.rels = {} \/ args.k = 0) => ret.val = Zero

\* C8: precision_at_k lies in [0, 1] for every k >= 1 and is 0 for k = 0.
C8_PrecisionInUnitInterval ==
    op = "precision_at_k" =>
        /\ ~ret.exc
        /\ RatLeq(Zero, ret.val) /\ RatLeq(ret.val, One)
        /\ args.k = 0 => ret.val = Zero

\* a ranked list with a repeated relevant id and more entries than k
C8_Witness ==
    /\ op = "precision_at_k"
    /\ args.k >= 1 /\ Len(args.ranked) > args.k
    /\ \E i, j \in 1..Len(args.ranked) :
          i < j /\ args.ranked[i] = args.ranked[j] /\ args.ranked[i] \in args.rels
    /\ ret.val = One

\* hits_i: the relevant entries among the first i positions
HitsUpTo(ranked, rels, i) == Cardinality({j \in 1..i : ranked[j] \in rels})

RECURSIVE RatSum(_, _, _)
RatSum(ranked, rels, P) ==
    IF P = {} THEN Zero
    ELSE LET i == CHOOSE p \in P : TRUE
         IN  RatAdd(Rat(HitsUpTo(ranked, rels, i), i), RatSum(ranked, rels, P \ {i}))

\* the closed form of AP@K stated by the specification
ApFormula(rels, ranked, k) ==
    LET P == {i \in 1..Min(k, Len(ranked)) : ranked[i] \in rels}
        s == RatSum(ranked, rels, P)
    IN  Rat(s[1], s[2] * Min(Cardinality(rels), k))

\* C9: for a non-empty relevant set and k >= 1 both ap_at_k implementations
\* return (sum over relevant positions i <= min(k, len) of hits_i / i)
\* / min(len(relevant), k); the scenario input yields (1/2 + 2/4 + 3/5) / 3.
C9_ApMatchesFormula ==
    (op \in {"ap_at_k", "selfcheck_ap_at_k"} /\ args.rels # {} /\ args.k >= 1) =>
        /\ ~ret.exc
        /\ ret.val = ApFormula(args.rels, args.ranked, args.k)
        /\ args = ScenarioInput => ret.val = Rat(8, 15)

C9_Witness ==
    /\ op = "selfcheck_ap_at_k"
    /\ args = ScenarioInput
    /\ ret.val = Rat(8, 15)

(***************************************************************************)
(* The inverted indices.  An index object is modelled by its posting       *)
(* lists: a function from terms to sequences of <<doc_id, tf>>, with the    *)
(* empty sequence for a term that index_obj.df does not hold (df is the     *)
(* length of the posting list).                                            *)
(***************************************************************************)
\* the vocabulary, in Python's string order (used by terms.sort())
TermOrder == <<"cat", "dog">>

Terms == Range(TermOrder)

\* all words, in string order
WordOrder == TermOrder \o <<"the">>

TermRank(t) == CHOOSE i \in 1..Len(WordOrder) : WordOrder[i] = t

\* the performance guards, scaled down to the size of the bounded corpus
\* (100_000, 50_000 and 100 in the source)
MAX_CANDIDATES == 2
MAX_POSTINGS_PER_TERM == 2
MAX_RESULTS == 1

\* index_obj.df.get(t); 0 stands for None
Df(index_obj, t) == IF t \in DOMAIN index_obj THEN Len(index_obj[t]) ELSE 0

\* index_obj.read_a_posting_list(...): the read of a term in `failed` raises
read_posting_list(index_obj, term, failed) ==
    IF term \in failed THEN [exc |-> TRUE, val |-> <<>>]
    ELSE [exc |-> FALSE, val |-> index_obj[term]]

(***************************************************************************)
(* Candidate generation.                                                   *)
(***************************************************************************)
\* (df, term) tuples compare by df first, then by term
TupleLess(index_obj, s, t) ==
    \/ Df(index_obj, s) < Df(index_obj, t)
    \/ Df(index_obj, s) = Df(index_obj, t) /\ TermRank(s) < TermRank(t)

\* terms.sort() over the set of (df, term) tuples
RECURSIVE SortTerms(_, _)
SortTerms(index_obj, S) ==
    IF S = {} THEN <<>>
    ELSE LET m == CHOOSE t \in S : \A u \in S \ {t} : TupleLess(index_obj, t, u)
         IN  <<m>> \o SortTerms(index_obj, S \ {m})

\* the mutant slices one posting short
CappedPostings_short(pl) == Take(pl, MAX_POSTINGS_PER_TERM - 1)

\* pl[:MAX_POSTINGS_PER_TERM]
CappedPostings(pl) == Take(pl, MAX_POSTINGS_PER_TERM)

\* the inner loop: add, then test the cap
RECURSIVE ScanPostings(_, _, _, _)
ScanPostings(pl, i, cand, max_candidates) ==
    IF i > Len(pl) THEN [full |-> FALSE, cand |-> cand]
    ELSE LET c == cand \cup {pl[i][1]}
         IN  IF Cardinality(c) >= max_candidates
             THEN [full |-> TRUE, cand |-> c]
             ELSE ScanPostings(pl, i + 1, c, max_candidates)

\* the outer loop; reads is the sequence of terms whose posting list was fetched
RECURSIVE ScanTerms(_, _, _, _, _, _, _)
ScanTerms(index_obj, terms, k, cand, reads, max_candidates, failed) ==
    IF k > Len(terms) THEN [exc |-> FALSE, val |-> cand, reads |-> reads]
    ELSE LET pl == read_posting_list(index_obj, terms[k], failed)
             rd == Append(reads, terms[k])
         IN  IF pl.exc THEN [exc |-> TRUE, val |-> {}, reads |-> rd]
             ELSE LET r == ScanPostings(CappedPostings(pl.val), 1, cand, max_candidates)
                  IN  IF r.full THEN [exc |-> FALSE, val |-> r.cand, reads |-> rd]
                      ELSE ScanTerms(index_obj, terms, k + 1, r.cand, rd,
                                     max_candidates, failed)

build_candidates(index_obj, query_tokens, max_candidates, failed) ==
    IF query_tokens = <<>> THEN [exc |-> FALSE, val |-> {}, reads |-> <<>>]
    ELSE ScanTerms(index_obj,
                   SortTerms(index_obj, {t \in Range(query_tokens) : Df(index_obj, t) > 0}),
                   1, {}, <<>>, max_candidates, failed)

(***************************************************************************)
(* SpecCand: build_candidates applied to bounded body indices.             *)
(***************************************************************************)
Docs == 1..MaxDoc

\* posting lists: no document twice, any order
PostingLists(D, TF) ==
    {s \in SeqsUpTo(D \X TF, Cardinality(D)) :
        \A i, j \in 1..Len(s) : i # j => s[i][1] # s[j][1]}

InitCand ==
    /\ body_index \in [Terms -> PostingLists(Docs, {1})]
    /\ title_index = NoIndex
    /\ anchor_index = NoIndex
    /\ app = Started
    /\ op = "init"
    /\ args \in [tokens : SeqsUpTo(Terms, MaxTokens), cap : 0..(MaxDoc + 1)]
    /\ ret = [exc |-> FALSE, val |-> {}, reads |-> <<>>]

CallBuildCandidates ==
    Call("build_candidates", build_candidates(body_index, args.tokens, args.cap, {}))

NextCand == CallBuildCandidates

SpecCand == InitCand /\ [][NextCand]_vars

PostingDocs(pl) == {pl[i][1] : i \in 1..Len(pl)}

\* C1: for every cap >= 0 the set build_candidates returns has at most cap
\* elements.
C1_CandidatesWithinCap ==
    op = "build_candidates" => Cardinality(ret.val) <= args.cap

\* C2 as claimed: with cap = number of documents of the corpus the result is
\* the full union of the query terms' body posting lists, whatever their length.
C2_FullUnionAtCorpusCap ==
    (op = "build_candidates" /\ args.cap = MaxDoc) =>
        ret.val = UNION {PostingDocs(body_index[t]) : t \in Range(args.tokens)}

\* C2 as amended: with cap = number of documents of the corpus the result is
\* the union of the first MAX_POSTINGS_PER_TERM postings of each query term.
C2_CappedUnionAtCorpusCap ==
    (op = "build_candidates" /\ args.cap = MaxDoc) =>
        ret.val = UNION {PostingDocs(Take(body_index[t], MAX_POSTINGS_PER_TERM)) :
                            t \in Range(args.tokens)}

\* a posting list longer than the per-term cap loses a document
C2_Witness ==
    /\ op = "build_candidates" /\ args.cap = MaxDoc
    /\ \E t \in Range(args.tokens) : Len(body_index[t]) > MAX_POSTINGS_PER_TERM
    /\ ret.val # UNION {PostingDocs(body_index[t]) : t \in Range(args.tokens)}
    /\ ret.val # {}

\* the in-index terms of the query
InIndexTerms == {t \in Range(args.tokens) : Df(body_index, t) > 0}

\* the candidate set after the first n fetched posting lists
CandAfter(n) ==
    UNION {PostingDocs(Take(body_index[ret.reads[k]], MAX_POSTINGS_PER_TERM)) : k \in 1..n}

FetchedRarestFirst ==
    /\ Range(ret.reads) \subseteq InIndexTerms
    /\ \A i, j \in 1..Len(ret.reads) :
          i < j => /\ ret.reads[i] # ret.reads[j]
                   /\ Df(body_index, ret.reads[i]) <= Df(body_index, ret.reads[j])

UnfetchedAreCommoner ==
    \A u \in InIndexTerms \ Range(ret.reads) :
        /\ Cardinality(ret.val) >= args.cap
        /\ \A f \in Range(ret.reads) : Df(body_index, u) >= Df(body_index, f)

\* C14: build_candidates fetches the posting lists of the in-index query terms
\* rarest first, reads nothing for absent terms, fetches no posting list once
\* the candidate set has reached the cap, and so leaves unfetched only terms
\* whose df is >= the df of every fetched term.
C14_RarestFirstUntilCap ==
    op = "build_candidates" =>
        /\ FetchedRarestFirst
        /\ \A i \in 1..Len(ret.reads) : Cardinality(CandAfter(i - 1)) < args.cap
        /\ UnfetchedAreCommoner

(***************************************************************************)
(* Scoring.  A score map (defaultdict) is a function whose domain is the   *)
(* set of keys written so far.                                             *)
(***************************************************************************)
NoScores == [d \in {} |-> 0]

\* scores.get(doc_id, 0)
Get(scores, d) == IF d \in DOMAIN scores THEN scores[d] ELSE 0

\* scores[doc_id] += w
AddScore(scores, d, w) ==
    [x \in DOMAIN scores \cup {d} |-> IF x = d THEN Get(scores, d) + w ELSE scores[x]]

\* candidates argument: None, or a collection of document ids
None == [given |-> FALSE, set |-> {}]

Some(S) == [given |-> TRUE, set |-> S]

\* the mutant adds the in-field term frequency instead of 1
RECURSIVE CountPostings_tf(_, _, _, _)
CountPostings_tf(pl, i, cand_set, scores) ==
    IF i > Len(pl) THEN scores
    ELSE IF cand_set.given /\ pl[i][1] \notin cand_set.set
         THEN CountPostings_tf(pl, i + 1, cand_set, scores)
         ELSE CountPostings_tf(pl, i + 1, cand_set, AddScore(scores, pl[i][1], pl[i][2]))

\* for doc_id, _ in pl: ... scores[doc_id] += 1
RECURSIVE CountPostings(_, _, _, _)
CountPostings(pl, i, cand_set, scores) ==
    IF i > Len(pl) THEN scores
    ELSE IF cand_set.given /\ pl[i][1] \notin cand_set.set
         THEN CountPostings(pl, i + 1, cand_set, scores)
         ELSE CountPostings(pl, i + 1, cand_set, AddScore(scores, pl[i][1], 1))

\* for term in set(query_tokens): ...   (S is the part of the set still to visit;
\* reads counts the posting lists fetched)
RECURSIVE CountTerms(_, _, _, _, _)
CountTerms(index_obj, S, cand_set, scores, failed) ==
    IF S = {} THEN [exc |-> FALSE, val |-> scores, reads |-> 0]
    ELSE LET term == CHOOSE t \in S : TRUE
         IN  IF Df(index_obj, term) = 0
             THEN CountTerms(index_obj, S \ {term}, cand_set, scores, failed)
             ELSE LET pl == read_posting_list(index_obj, term, failed)
                  IN  IF pl.exc THEN [exc |-> TRUE, val |-> NoScores, reads |-> 1]
                      ELSE LET r == CountTerms(index_obj, S \ {term}, cand_set,
                                               CountPostings(pl.val, 1, cand_set, scores),
                                               failed)
                           IN  [r EXCEPT !.reads = @ + 1]

binary_match_count(index_obj, query_tokens, candidates, failed) ==
    IF query_tokens = <<>> THEN [exc |-> FALSE, val |-> NoScores, reads |-> 0]
    ELSE CountTerms(index_obj, Range(query_tokens), candidates, NoScores, failed)

(***************************************************************************)
(* SpecCount: binary_match_count applied to bounded field indices.         *)
(***************************************************************************)
DocsE == 1..MaxDocE

\* posting lists in document-id order
SortedPostingLists(D, TF) ==
    {s \in PostingLists(D, TF) : \A i, j \in 1..Len(s) : i < j => s[i][1] < s[j][1]}

CandidateArgs(D) == {None} \cup {Some(S) : S \in SUBSET D}

InitCount ==
    /\ body_index = NoIndex
    /\ title_index \in [Terms -> SortedPostingLists(DocsE, 1..MaxTf)]
    /\ anchor_index = NoIndex
    /\ app = Started
    /\ op = "init"
    /\ args \in [tokens : SeqsUpTo(Terms, MaxTokens), candidates : CandidateArgs(DocsE)]
    /\ ret = [exc |-> FALSE, val |-> NoScores, reads |-> 0]

CallBinaryMatchCount ==
    Call("binary_match_count",
         binary_match_count(title_index, args.tokens, args.candidates, {}))

NextCount == CallBinaryMatchCount

SpecCount == InitCount /\ [][NextCount]_vars

\* the distinct query terms held by the index whose posting list contains d
MatchingTerms(index_obj, tokens, d) ==
    {t \in Range(tokens) : Df(index_obj, t) > 0 /\ d \in PostingDocs(index_obj[t])}

\* C6: binary_match_count scores every candidate document with the number of
\* distinct query terms that are in the field's index and whose posting list
\* holds the document, whatever the repetitions in the query and the in-field
\* term frequencies; a document in no posting list scores 0.
C6_DistinctMatchCount ==
    op = "binary_match_count" =>
        /\ ~ret.exc
        /\ \A d \in DocsE :
              (~args.candidates.given \/ d \in args.candidates.set) =>
                  Get(ret.val, d) = Cardinality(MatchingTerms(title_index, args.tokens, d))

\* a repeated query term and a posting with tf > 1 still count once
C6_Witness ==
    /\ op = "binary_match_count"
    /\ \E d \in DocsE :
          /\ args.tokens = <<"cat", "cat">>
          /\ \E i \in 1..Len(title_index["cat"]) : title_index["cat"][i] = <<d, MaxTf>>
          /\ Get(ret.val, d) = 1
    /\ \E d \in DocsE : Get(ret.val, d) = 0

(***************************************************************************)
(* TF-IDF body scoring, in fixed point: 1 + log10(n) in tenths, idf in     *)
(* hundredths, so that a body score is in units of 10^-6.                  *)
(***************************************************************************)
\* the mutant drops the "1.0 +" of the weights
Log10Only(n) == <<0, 3, 5, 6, 7>>[n]

\* 1.0 + math.log10(n), rounded to tenths, n = 1..5
OnePlusLog10(n) == <<10, 13, 15, 16, 17>>[n]

\* math.log10((N_CORPUS + 1.0) / (df + 1.0)) with N_CORPUS = 6_300_000,
\* rounded to hundredths, df = 1..5
Idf(df) == <<650, 632, 620, 610, 602>>[df]

\* a float score map with its insertion order (dict order)
NoDict == [keys |-> <<>>, val |-> NoScores]

DictAdd(sc, d, w) ==
    [keys |-> IF d \in DOMAIN sc.val THEN sc.keys ELSE Append(sc.keys, d),
     val |-> AddScore(sc.val, d, w)]

\* for doc_id, tf in pl: ... scores[doc_id] += wq * wd
RECURSIVE TfidfPostings(_, _, _, _, _, _)
TfidfPostings(pl, i, cand_set, wq, idf, sc) ==
    IF i > Len(pl) THEN sc
    ELSE IF cand_set.given /\ pl[i][1] \notin cand_set.set
         THEN TfidfPostings(pl, i + 1, cand_set, wq, idf, sc)
         ELSE TfidfPostings(pl, i + 1, cand_set, wq, idf,
                            DictAdd(sc, pl[i][1], wq * (OnePlusLog10(pl[i][2]) * idf)))

\* the keys of Counter(query_tokens), in order of first occurrence
RECURSIVE Dedup(_)
Dedup(s) ==
    IF s = <<>> THEN <<>>
    ELSE LET r == Dedup(SubSeq(s, 1, Len(s) - 1))
         IN  IF s[Len(s)] \in Range(r) THEN r ELSE Append(r, s[Len(s)])

\* Counter(query_tokens)[term]
QueryCount(query_tokens, term) ==
    Cardinality({i \in 1..Len(query_tokens) : query_tokens[i] = term})

\* for term, qcnt in q_tf.items(): ...
RECURSIVE TfidfTerms(_, _, _, _, _, _, _)
TfidfTerms(index_obj, query_tokens, terms, k, cand_set, sc, failed) ==
    IF k > Len(terms) THEN [exc |-> FALSE, val |-> sc, reads |-> 0]
    ELSE LET df == Df(index_obj, terms[k])
         IN  IF df = 0
             THEN TfidfTerms(index_obj, query_tokens, terms, k + 1, cand_set, sc, failed)
             ELSE LET idf == Idf(df)
                      wq == OnePlusLog10(QueryCount(query_tokens, terms[k])) * idf
                      pl == read_posting_list(index_obj, terms[k], failed)
                  IN  IF pl.exc THEN [exc |-> TRUE, val |-> NoDict, reads |-> 1]
                      ELSE LET r == TfidfTerms(index_obj, query_tokens, terms, k + 1,
                                               cand_set,
                                               TfidfPostings(pl.val, 1, cand_set, wq, idf, sc),
                                               failed)
                           IN  [r EXCEPT !.reads = @ + 1]

tfidf_body_scores(index_obj, query_tokens, candidates, failed) ==
    IF query_tokens = <<>> THEN [exc |-> FALSE, val |-> NoDict, reads |-> 0]
    ELSE TfidfTerms(index_obj, query_tokens, Dedup(query_tokens), 1, candidates,
                    NoDict, failed)

(***************************************************************************)
(* Ranking.  An item is <<doc_id, score>>; a sort key is a pair compared   *)
(* as a Python tuple.                                                      *)
(***************************************************************************)
KeyGreater(x, y) == x[1] > y[1] \/ (x[1] = y[1] /\ x[2] > y[2])

\* key=lambda x: x[1]
ScoreKey(item) == <<item[2], 0>>

\* key=lambda x: (x[1], -int(x[0]) if str(x[0]).isdigit() else 0)
CountKey(item) == <<item[2], 0 - item[1]>>

RemoveAt(s, i) == SubSeq(s, 1, i - 1) \o SubSeq(s, i + 1, Len(s))

\* heapq.nlargest(n, items, key) = sorted(items, key=key, reverse=True)[:n]:
\* of several items with the largest key the first one comes first.
\* items is a sequence of [item, key] records.
RECURSIVE NLargest(_, _)
NLargest(n, items) ==
    IF n <= 0 \/ items = <<>> THEN <<>>
    ELSE LET i == CHOOSE j \in 1..Len(items) :
                      /\ \A m \in 1..Len(items) : ~KeyGreater(items[m].key, items[j].key)
                      /\ \A m \in 1..(j - 1) : KeyGreater(items[j].key, items[m].key)
         IN  <<items[i].item>> \o NLargest(n - 1, RemoveAt(items, i))

ByScore(items) == [i \in 1..Len(items) |-> [item |-> items[i], key |-> ScoreKey(items[i])]]

ByCount(items) == [i \in 1..Len(items) |-> [item |-> items[i], key |-> CountKey(items[i])]]

\* the fused score of /search, doubled to stay integral:
\* w_body, w_title, w_anchor = 1.0, 2.0, 1.5 and one count = 10^6 score units
Fused(body_scores, title_scores, anchor_scores, d) ==
    2 * Get(body_scores, d) + 4 * 1000000 * Get(title_scores, d)
        + 3 * 1000000 * Get(anchor_scores, d)

\* for doc_id in candidates: ... if s > 0: ranked.append((doc_id, s))
RECURSIVE RankCandidates(_, _, _, _, _)
RankCandidates(order, i, body_scores, title_scores, anchor_scores) ==
    IF i > Len(order) THEN <<>>
    ELSE LET s == Fused(body_scores, title_scores, anchor_scores, order[i])
             rest == RankCandidates(order, i + 1, body_scores, title_scores, anchor_scores)
         IN  IF s > 0 THEN <<<<order[i], s>>>> \o rest ELSE rest

\* scores.items() of a dict, in insertion order
DictItems(sc) == [i \in 1..Len(sc.keys) |-> <<sc.keys[i], sc.val[sc.keys[i]]>>]

\* scores.items() of a score map whose order the ranking does not depend on
RECURSIVE MapItems(_)
MapItems(scores) ==
    IF DOMAIN scores = {} THEN <<>>
    ELSE LET d == CHOOSE x \in DOMAIN scores : TRUE
         IN  <<<<d, scores[d]>>>> \o MapItems([x \in DOMAIN scores \ {d} |-> scores[x]])

(***************************************************************************)
(* The query endpoints.  A query text is the sequence of its words; the    *)
(* empty sequence is the empty string.  A response is the JSON list        *)
(* (time: whether the "__time__" pair leads it, top: the ranked items      *)
(* behind it) or, with exc, the unhandled exception of the request;        *)
(* ranked and cand keep the handler's locals of the same names, reads the  *)
(* number of posting lists the handler fetched.                            *)
(***************************************************************************)
ALL_STOPWORDS == {"the"}

Words == Terms \cup ALL_STOPWORDS

\* the mutant filters no stopword
KeepAll(w) == TRUE

\* if m.group() not in ALL_STOPWORDS
Keep(w) == w \notin ALL_STOPWORDS

tokenize(text) == SelectSeq(text, Keep)

Response(time, top, ranked, cand, reads) ==
    [exc |-> FALSE, time |-> time, top |-> top, ranked |-> ranked, cand |-> cand,
     reads |-> reads]

\* an exception leaves the view function
ServerError(reads) ==
    [exc |-> TRUE, time |-> FALSE, top |-> <<>>, ranked |-> <<>>, cand |-> {},
     reads |-> reads]

\* idx holds the three global index objects; order is the iteration order
\* of the candidate set
search(idx, query, failed, order) ==
    IF query = <<>> THEN Response(FALSE, <<>>, <<>>, {}, 0)
    ELSE LET tokens == tokenize(query)
             c == build_candidates(idx.body, tokens, MAX_CANDIDATES, failed)
         IN  IF c.exc THEN ServerError(Len(c.reads))
             ELSE IF c.val = {} THEN Response(TRUE, <<>>, <<>>, {}, Len(c.reads))
             ELSE LET b == tfidf_body_scores(idx.body, tokens, Some(c.val), failed)
                      t == binary_match_count(idx.title, tokens, Some(c.val), failed)
                      a == binary_match_count(idx.anchor, tokens, Some(c.val), failed)
                  IN  IF b.exc THEN ServerError(Len(c.reads) + b.reads)
                      ELSE IF t.exc THEN ServerError(Len(c.reads) + b.reads + t.reads)
                      ELSE IF a.exc
                      THEN ServerError(Len(c.reads) + b.reads + t.reads + a.reads)
                      ELSE LET ranked == RankCandidates(order, 1, b.val.val, t.val, a.val)
                           IN  Response(TRUE, NLargest(MAX_RESULTS, ByScore(ranked)),
                                        ranked, c.val,
                                        Len(c.reads) + b.reads + t.reads + a.reads)

search_body(idx, query, failed) ==
    IF query = <<>> THEN Response(FALSE, <<>>, <<>>, {}, 0)
    ELSE LET tokens == tokenize(query)
             c == build_candidates(idx.body, tokens, MAX_CANDIDATES, failed)
         IN  IF c.exc THEN ServerError(Len(c.reads))
             ELSE LET b == tfidf_body_scores(idx.body, tokens, Some(c.val), failed)
                  IN  IF b.exc THEN ServerError(Len(c.reads) + b.reads)
                      ELSE Response(TRUE, NLargest(MAX_RESULTS, ByScore(DictItems(b.val))),
                                    DictItems(b.val), c.val, Len(c.reads) + b.reads)

\* the mutant scores the field over the whole index (candidates=None)
search_field_unrestricted(idx, index_obj, query, failed) ==
    IF query = <<>> THEN Response(FALSE, <<>>, <<>>, {}, 0)
    ELSE LET tokens == tokenize(query)
             c == build_candidates(idx.body, tokens, MAX_CANDIDATES, failed)
         IN  IF c.exc THEN ServerError(Len(c.reads))
             ELSE LET s == binary_match_count(index_obj, tokens, None, failed)
                  IN  IF s.exc THEN ServerError(Len(c.reads) + s.reads)
                      ELSE Response(TRUE, NLargest(MAX_RESULTS, ByCount(MapItems(s.val))),
                                    MapItems(s.val), c.val, Len(c.reads) + s.reads)

\* /search_title and /search_anchor differ in the index only
search_field(idx, index_obj, query, failed) ==
    IF query = <<>> THEN Response(FALSE, <<>>, <<>>, {}, 0)
    ELSE LET tokens == tokenize(query)
             c == build_candidates(idx.body, tokens, MAX_CANDIDATES, failed)
         IN  IF c.exc THEN ServerError(Len(c.reads))
             ELSE LET s == binary_match_count(index_obj, tokens, Some(c.val), failed)
                  IN  IF s.exc THEN ServerError(Len(c.reads) + s.reads)
                      ELSE Response(TRUE, NLargest(MAX_RESULTS, ByCount(MapItems(s.val))),
                                    MapItems(s.val), c.val, Len(c.reads) + s.reads)

search_title(idx, query, failed) == search_field(idx, idx.title, query, failed)

search_anchor(idx, query, failed) == search_field(idx, idx.anchor, query, failed)

\* the module globals
Globals == [body |-> body_index, title |-> title_index, anchor |-> anchor_index]

(***************************************************************************)
(* Spec: requests against a bounded corpus.                                *)
(***************************************************************************)
\* the terms that occur in anchor text
AnchorTerms == {"cat"}

OnlyTerms(index_obj, T) == \A t \in Terms \ T : index_obj[t] = <<>>

\* the terms that a body repeats
RepeatedTerms == {"cat"}

OnlyRepeated(index_obj, T) ==
    \A t \in Terms \ T : \A i \in 1..Len(index_obj[t]) : index_obj[t][i][2] = 1

\* no request is being served
NoRequest == [query |-> <<>>, failed |-> {}]

NoResponse == Response(FALSE, <<>>, <<>>, {}, 0)

Init ==
    /\ body_index \in [Terms -> SortedPostingLists(DocsE, 1..MaxTf)]
    /\ OnlyRepeated(body_index, RepeatedTerms)
    /\ title_index \in [Terms -> SortedPostingLists(DocsE, {1})]
    /\ anchor_index \in [Terms -> SortedPostingLists(DocsE, {1})]
    /\ OnlyTerms(anchor_index, AnchorTerms)
    /\ app = Started
    /\ op = "idle"
    /\ args = NoRequest
    /\ ret = NoResponse

Queries == SeqsUpTo(Words, MaxQueryLen)

\* the posting-list reads that fail during one request
Failures == {{}} \cup {{t} : t \in Terms}

\* the orders in which a set may be iterated
SetOrders(S) == {s \in [1..Cardinality(S) -> S] : Range(s) = S}

\* one request is served from its arrival to its response
Request(name, query, failed, response) ==
    /\ op = "idle"
    /\ op' = name
    /\ args' = [query |-> query, failed |-> failed]
    /\ ret' = response
    /\ UNCHANGED <<body_index, title_index, anchor_index, app>>

Search ==
    \E query \in Queries, failed \in Failures :
        \E order \in SetOrders(build_candidates(body_index, tokenize(query),
                                                MAX_CANDIDATES, failed).val) :
            Request("search", query, failed, search(Globals, query, failed, order))

SearchBody ==
    \E query \in Queries, failed \in Failures :
        Request("search_body", query, failed, search_body(Globals, query, failed))

SearchTitle ==
    \E query \in Queries, failed \in Failures :
        Request("search_title", query, failed, search_title(Globals, query, failed))

SearchAnchor ==
    \E query \in Queries, failed \in Failures :
        Request("search_anchor", query, failed, search_anchor(Globals, query, failed))

\* return jsonify(res): the response leaves, the handler's locals are gone
Deliver ==
    /\ op # "idle"
    /\ op' = "idle"
    /\ args' = NoRequest
    /\ ret' = NoResponse
    /\ UNCHANGED <<body_index, title_index, anchor_index, app>>

Next == Search \/ SearchBody \/ SearchTitle \/ SearchAnchor \/ Deliver

Spec == Init /\ [][Next]_vars

Endpoints == {"search", "search_body", "search_title", "search_anchor"}

\* the document ids of a list of items
ItemDocs(items) == [i \in 1..Len(items) |-> items[i][1]]

\* item x precedes item y: larger score first, smaller document id among equals
Precedes(x, y) == x[2] > y[2] \/ (x[2] = y[2] /\ x[1] < y[1])

\* top is the first min(n, len(items)) entries of items fully sorted by Precedes
IsSortedPrefix(top, items, n) ==
    /\ Len(top) = Min(n, Len(items))
    /\ Range(top) \subseteq Range(items)
    /\ \A i, j \in 1..Len(top) : i < j => Precedes(top[i], top[j])
    /\ \A x \in Range(items) \ Range(top) : \A i \in 1..Len(top) : Precedes(top[i], x)

\* C3: /search returns exactly the first min(MAX_RESULTS, n) of its n positively
\* scored candidates sorted by fused score descending, ties by document id
\* ascending.
C3_SearchIsSortedPrefix ==
    (op = "search" /\ ~ret.exc) => IsSortedPrefix(ret.top, ret.ranked, MAX_RESULTS)

FieldCount(index_obj, query, d) == Cardinality(MatchingTerms(index_obj, tokenize(query), d))

FieldIndex == IF op = "search_title" THEN title_index ELSE anchor_index

C5_FieldEndpointsUncapped ==
    (op \in {"search_title", "search_anchor"} /\ ~ret.exc) =>
        /\ Range(ItemDocs(ret.top)) = {d \in DocsE : FieldCount(FieldIndex, args.query, d) > 0}
        /\ \A i \in 1..Len(ret.top) :
              ret.top[i][2] = FieldCount(FieldIndex, args.query, ret.top[i][1])
        /\ \A i, j \in 1..Len(ret.top) : i < j => Precedes(ret.top[i], ret.top[j])

ResponseOf(name, idx, query, failed, order) ==
    CASE name = "search" -> search(idx, query, failed, order)
      [] name = "search_body" -> search_body(idx, query, failed)
      [] name = "search_title" -> search_title(idx, query, failed)
      [] OTHER -> search_anchor(idx, query, failed)

\* an index without the terms of T in its vocabulary
Without(index_obj, T) == [t \in DOMAIN index_obj |-> IF t \in T THEN <<>> ELSE index_obj[t]]

GlobalsWithout(T) ==
    [body |-> Without(body_index, T), title |-> Without(title_index, T),
     anchor |-> Without(anchor_index, T)]

SameAnswer(r) == ret.time = r.time /\ ret.top = r.top

\* C10: a failed posting-list read does not abort the query; the answer is
\* the one the indices give without the failed term in their vocabulary (or,
\* when the query never fetched that posting list, the undisturbed answer).
C10_FailedReadDegrades ==
    (op \in Endpoints /\ args.failed # {}) =>
        /\ ~ret.exc
        /\ \E order \in SetOrders(ret.cand) :
              \/ SameAnswer(ResponseOf(op, GlobalsWithout(args.failed), args.query, {}, order))
              \/ SameAnswer(ResponseOf(op, Globals, args.query, {}, order))

\* build_candidates(tokens, MAX_CANDIDATES) of the request being served, its
\* reads succeeding
BodyCandidates ==
    build_candidates(body_index, tokenize(args.query), MAX_CANDIDATES, {}).val

InitUnfiltered ==
    /\ body_index \in [Words -> SortedPostingLists(DocsE, {1})]
    /\ OnlyTerms(body_index, {"cat"})
    /\ title_index \in [Words -> SortedPostingLists(DocsE, {1})]
    /\ OnlyTerms(title_index, {})
    /\ anchor_index \in [Words -> SortedPostingLists(DocsE, {1})]
    /\ OnlyTerms(anchor_index, {})
    /\ app = Started
    /\ op = "idle"
    /\ args = NoRequest
    /\ ret = NoResponse

SpecUnfiltered == InitUnfiltered /\ [][Next]_vars

\* the query text is empty or holds stopwords only
NoTokens(query) == Range(query) \subseteq ALL_STOPWORDS

\* C13: every endpoint answers a query that is the empty string, or that has
\* no token left after stopword removal, with an empty result list (at most
\* the time marker), without an error and without reading a posting list.
C13_NoTokensNoReads ==
    (op \in Endpoints /\ NoTokens(args.query)) =>
        /\ ~ret.exc
        /\ ret.top = <<>>
        /\ ret.reads = 0

\* a query of stopwords only is answered with the time marker alone although
\* the body index has a posting list for the stopword
C13_Witness ==
    /\ op \in Endpoints
    /\ args.query # <<>> /\ NoTokens(args.query)
    /\ \E w \in Range(args.query) : body_index[w] # <<>>
    /\ ret.time /\ ret.top = <<>> /\ ret.reads = 0

(***************************************************************************)
(* SpecStartup: startup() and the request threads.  startup is registered  *)
(* with @app.before_first_request: the thread that dispatches the first    *)
(* request runs it under the application's lock before its view function,  *)
(* and the application counts the first request as received when the       *)
(* registered functions have returned; a thread that finds the lock taken  *)
(* waits.  An index object is abstracted to its posting_locs: the shards   *)
(* whose entries it holds, and whether merge_posting_locs has set it.      *)
(***************************************************************************)
\* the *_posting_locs.pickle files of one component in the bucket
Shards == 1..MaxShards

\* InvertedIndex.read_index(...): an index object as pickled
Loaded == [merged |-> FALSE, posting_locs |-> {}]

\* index_obj.posting_locs = merge_posting_locs(prefix), the shards of `loaded`
\* being the ones gcs_load_pickle could load
Merge(loaded) == [merged |-> TRUE, posting_locs |-> loaded]

\* the mutant counts the first request as received when startup begins
StartupBegun == app.got_first_request \/ app.lock # 0

\* the before-first-request functions have run
GotFirstRequest == app.got_first_request

InitStartup ==
    /\ body_index = NoIndex
    /\ title_index = NoIndex
    /\ anchor_index = NoIndex
    /\ app = [got_first_request |-> FALSE, lock |-> 0, line |-> 0,
              pc |-> [t \in Threads |-> "idle"]]
    /\ op = "idle"
    /\ args = NoRequest
    /\ ret = NoResponse

\* a request arrives and is given to thread t
Arrive(t) ==
    /\ app.pc[t] = "idle"
    /\ app' = [app EXCEPT !.pc[t] = "dispatch"]
    /\ UNCHANGED <<body_index, title_index, anchor_index, op, args, ret>>

\* startup has run: the request goes to its view function
Dispatch(t) ==
    /\ app.pc[t] = "dispatch"
    /\ GotFirstRequest
    /\ app' = [app EXCEPT !.pc[t] = "view"]
    /\ UNCHANGED <<body_index, title_index, anchor_index, op, args, ret>>

\* the first request: thread t takes the lock and enters startup()
TriggerStartup(t) ==
    /\ app.pc[t] = "dispatch"
    /\ ~GotFirstRequest
    /\ app.lock = 0
    /\ app' = [app EXCEPT !.pc[t] = "startup", !.lock = t, !.line = 1]
    /\ UNCHANGED <<body_index, title_index, anchor_index, op, args, ret>>

\* the three read_index statements
ReadIndex(t) ==
    /\ app.pc[t] = "startup"
    /\ app.line \in 1..3
    /\ body_index' = IF app.line = 1 THEN Loaded ELSE body_index
    /\ title_index' = IF app.line = 2 THEN Loaded ELSE title_index
    /\ anchor_index' = IF app.line = 3 THEN Loaded ELSE anchor_index
    /\ app' = [app EXCEPT !.line = @ + 1]
    /\ UNCHANGED <<op, args, ret>>

\* the three merge_posting_locs statements: a shard that gcs_load_pickle
\* cannot load is None and is skipped
MergePostingLocs(t) ==
    /\ app.pc[t] = "startup"
    /\ app.line \in 4..6
    /\ \E loaded \in SUBSET Shards :
          /\ body_index' = IF app.line = 4 THEN Merge(loaded) ELSE body_index
          /\ title_index' = IF app.line = 5 THEN Merge(loaded) ELSE title_index
          /\ anchor_index' = IF app.line = 6 THEN Merge(loaded) ELSE anchor_index
    /\ app' = [app EXCEPT !.line = @ + 1]
    /\ UNCHANGED <<op, args, ret>>

\* id2title is loaded (or is None) and startup returns: the lock is released
\* and the thread goes on to its view function
FinishStartup(t) ==
    /\ app.pc[t] = "startup"
    /\ app.line = 7
    /\ app' = [app EXCEPT !.got_first_request = TRUE, !.lock = 0, !.line = 0,
                          !.pc[t] = "view"]
    /\ UNCHANGED <<body_index, title_index, anchor_index, op, args, ret>>

\* read_index or the listing of the bucket raises: the exception leaves
\* startup, the request fails and the lock is released
StartupRaises(t) ==
    /\ app.pc[t] = "startup"
    /\ app.line \in 1..6
    /\ app' = [app EXCEPT !.lock = 0, !.line = 0, !.pc[t] = "idle"]
    /\ op' = "startup_failed"
    /\ args' = [thread |-> t]
    /\ ret' = Globals
    /\ UNCHANGED <<body_index, title_index, anchor_index>>

\* the view function runs: ret keeps the index objects it works with
Serve(t) ==
    /\ app.pc[t] = "view"
    /\ app' = [app EXCEPT !.pc[t] = "idle"]
    /\ op' = "served"
    /\ args' = [thread |-> t]
    /\ ret' = Globals
    /\ UNCHANGED <<body_index, title_index, anchor_index>>

NextStartup ==
    \E t \in Threads :
        \/ Arrive(t)
        \/ Dispatch(t)
        \/ TriggerStartup(t)
        \/ ReadIndex(t)
        \/ MergePostingLocs(t)
        \/ FinishStartup(t)
        \/ StartupRaises(t)
        \/ Serve(t)

SpecStartup == InitStartup /\ [][NextStartup]_vars

\* all three indices are loaded and their posting_locs are merged
AllMerged(idx) ==
    \A f \in {"body", "title", "anchor"} : idx[f] # NoIndex /\ idx[f].merged

\* C11: no view function runs while startup is in progress: a request that
\* arrives before startup has completed waits (or fails with startup), and a
\* view function never works with an index that is not loaded or whose
\* posting_locs is not merged.
C11_NoViewDuringStartup ==
    /\ \A t \in Threads :
          app.pc[t] = "view" => (app.lock = 0 /\ AllMerged(Globals))
    /\ op = "served" => AllMerged(ret)

\* thread t runs startup between read_index and merge_posting_locs while the
\* request of another thread has arrived and waits
C11_Witness ==
    \E t, u \in Threads :
        /\ app.pc[t] = "startup" /\ app.line = 4
        /\ body_index = Loaded
        /\ app.pc[u] = "dispatch"

\* C12: a failed load of an index or of a posting_locs shard is fatal: the
\* service does not become ready, and no view function works with an index
\* whose posting_locs lacks the entries of a shard.
C12_FailedLoadIsFatal ==
    /\ GotFirstRequest =>
          \A f \in {"body", "title", "anchor"} : Globals[f].posting_locs = Shards
    /\ op = "served" =>
          \A f \in {"body", "title", "anchor"} : ret[f].posting_locs = Shards
====
